---- MODULE Spec2Model ----
\* Model of menpofit/fitter.py: the multi-scale fitting orchestrator
\* (MultiFitter.fit_from_shape, _prepare_image, _fit), the perturbation-set
\* generator (generate_perturbations_from_gt) and the noisy similarity
\* alignment (noisy_alignment_similarity_transform).
EXTENDS Integers, Sequences, FiniteSets, TLC

\* ------------------------------------------------------------------ bounds
MaxScales == 3
MaxImages == 2
MaxPerturbations == 2
MaxCalls == 2
MaxPctLen == 4

\* ------------------------------------------------------------- arithmetic
\* Scale factors are rationals, kept as reduced pairs <<numerator, denominator>>.
RECURSIVE GCD(_, _)
GCD(a, b) == IF b = 0 THEN a ELSE GCD(b, a % b)

Frac(n, d) == LET g == GCD(n, d) IN <<n \div g, d \div g>>

FracMul(a, b) == Frac(a[1] * b[1], a[2] * b[2])

FracDiv(a, b) == Frac(a[1] * b[2], a[2] * b[1])

FracAdd(a, b) == Frac(a[1] * b[2] + b[1] * a[2], a[2] * b[2])

FracSub(a, b) == Frac(a[1] * b[2] - b[1] * a[2], a[2] * b[2])

FracOne == <<1, 1>>
FracHalf == <<1, 2>>
FracZero == <<0, 1>>

\* An optional value: Python's None is the empty tuple, a value v is <<v>>
None == <<>>
Some(v) == <<v>>

\* 0-based indexing of a Python list, and list[-1]
At(list, idx) == list[idx + 1]
LastOf(list) == list[Len(list)]

\* ---------------------------------------------------------------- domains
ScaleVals == {FracHalf, FracOne}
FeatureFns == {"f", "g"}
IterVals == {1, 2}
CropVals == {None, Some(FracZero), Some(FracHalf)}

RECURSIVE SeqsUpTo(_, _)
SeqsUpTo(S, n) ==
    IF n = 0 THEN {<<>>}
    ELSE LET shorter == SeqsUpTo(S, n - 1)
         IN shorter \cup {Append(s, x) : s \in {t \in shorter : Len(t) = n - 1}, x \in S}

NonEmptySeqs(S, n) == SeqsUpTo(S, n) \ {<<>>}

\* ----------------------------------------------------------------- shapes
\* A shape is known by where it came from (origin, and the scale index for an
\* algorithm's final shape) and by the coordinate frame it is expressed in:
\* the crop applied, whether the image was rescaled to the reference shape,
\* and the accumulated scale factor.
MkShape(origin, level) ==
    [origin |-> origin, level |-> level, crop |-> None, toRef |-> FALSE,
     factor |-> FracOne]

\* Python truthiness of an optional number: None and 0 are falsy
Truthy(x) == x # None /\ x # Some(FracZero)

\* dict operations on a landmark mapping
SetGroup(lm, g, v) == [k \in DOMAIN lm \cup {g} |-> IF k = g THEN v ELSE lm[k]]
DelGroup(lm, g) == [k \in DOMAIN lm \ {g} |-> lm[k]]


\* Transforms applied to an image carry its landmarks along.
CropShape(s, p) == [s EXCEPT !.crop = Some(p)]
ToRefShape(s) == [s EXCEPT !.toRef = TRUE]
\* menpo.transform.Scale(factor).apply(shape)
ScaleApply(r, s) == [s EXCEPT !.factor = FracMul(@, r)]

\* A derived image: its landmark mapping and the feature function that made it
MkImage(lm, feat) == [landmarks |-> lm, feat |-> feat]

\* image.crop_to_landmarks_proportion(p, group)
CropToLandmarksProportion(im, p) ==
    MkImage([g \in DOMAIN im.landmarks |-> CropShape(im.landmarks[g], p)], im.feat)
\* image.rescale_to_pointcloud(reference_shape, group)
RescaleToPointcloud(im) ==
    MkImage([g \in DOMAIN im.landmarks |-> ToRefShape(im.landmarks[g])], im.feat)
\* image.rescale(factor)
Rescale(im, r) ==
    MkImage([g \in DOMAIN im.landmarks |-> ScaleApply(r, im.landmarks[g])], im.feat)
\* holistic_features[i](image)
ApplyFeature(fn, im) == MkImage(im.landmarks, fn)

\* menpo.transform.AlignmentAffine(source, target)
AlignmentAffine(source, target) == [source |-> source, target |-> target]

\* ======================================================== MultiFitter
VARIABLES
    scales,             \* self.scales
    holistic_features,  \* self.holistic_features (a function is known by its identity)
    image,              \* the caller's image (its landmark mapping)
    args,               \* arguments of the fit_from_shape call in progress
    pc,                 \* position in fit_from_shape / _prepare_image / _fit
    i,                  \* loop index of the running loop
    tmp_image, feature_image, images,
    initial_shapes, gt_shapes,
    affine_correction,
    max_iters,          \* the per-scale budgets after check_max_iters
    shape,              \* _fit's current shape
    algorithm_results,
    fitter_result,
    error,              \* the exception that ended the call, "" if none
    featLog,            \* feature-function invocations: <<level, function>>
    cropLog,            \* crop_to_landmarks_proportion invocations: the proportion
    runLog              \* algorithms[i].run invocations

fitVars == <<scales, holistic_features, image, args, pc, i, tmp_image,
             feature_image, images, initial_shapes, gt_shapes, affine_correction,
             max_iters, shape, algorithm_results, fitter_result, error, featLog,
             cropLog, runLog>>

\* MultiFitter.n_scales
n_scales == Len(scales)

EmptyLm == [k \in {} |-> MkShape("none", -1)]
NoImage == MkImage(EmptyLm, "none")
NoShape == MkShape("none", -1)

\* The landmark groups an image may carry before the call: annotations of its
\* own, and possibly a group that happens to use one of the transient names.
CallerLandmarks ==
    { [k \in {"PTS"} |-> MkShape("PTS", -1)],
      [k \in {"PTS", "__gt_shape"} |-> MkShape(k, -1)] }

\* max_iters as the caller passes it: an int, or a list of ints
MaxItersArgs ==
    {[kind |-> "int", val |-> <<m>>] : m \in IterVals}
    \cup {[kind |-> "list", val |-> l] : l \in NonEmptySeqs(IterVals, MaxScales)}

NoArgs ==
    [initial_shape |-> NoShape, max_iters |-> [kind |-> "int", val |-> <<1>>],
     gt_shape |-> None, crop_image |-> None, landmarks |-> EmptyLm]

\* checks.check_max_iters(max_iters, n_scales): a scalar is broadcast to every
\* scale, a list must have n_scales entries.
CheckMaxItersOk(mi, n) == mi.kind = "int" \/ Len(mi.val) = n

CheckMaxIters(mi, n) ==
    IF mi.kind = "int" THEN [k \in 1..n |-> mi.val[1]] ELSE mi.val

\* `if crop_image:`
ShouldCrop(crop_image) == Truthy(crop_image)

\* `if gt_shape:` (a PointCloud object is truthy)
HasGt(gt_shape) == gt_shape # None

\* faulty variant: the features are computed on the first pass only
NeedsFeature_FirstOnly(hf, idx) == idx = 0
\* `i == 0 or self.holistic_features[i] is not self.holistic_features[i - 1]`
NeedsFeature(hf, idx) == idx = 0 \/ At(hf, idx) # At(hf, idx - 1)

\* `if self.scales[i] != 1` ... rescale, else the feature image itself
ScaledImage(sc, idx, fimg) ==
    IF At(sc, idx) # FracOne THEN Rescale(fimg, At(sc, idx)) ELSE fimg

\* faulty variant: the coarsest level's initial shape is the source
AffineSource_First(shapes) == At(shapes, 0)
\* the source of fit_from_shape's AlignmentAffine
AffineSource(shapes) == LastOf(shapes)

\* faulty variant: every scale gets the first budget
Budget_First(mi, idx) == At(mi, 0)
\* the budget passed to algorithms[i].run
Budget(mi, idx) == At(mi, idx)

\* "Prepare this scale's final shape for the next scale"
NextShape(sc, idx, final_shape) ==
    IF At(sc, idx) # LastOf(sc)
    THEN ScaleApply(FracDiv(At(sc, idx + 1), At(sc, idx)), final_shape)
    ELSE final_shape

\* `for i in range(self.n_scales)` of _prepare_image and of _fit: the loop is over
PrepareLoopDone(idx, n) == idx >= n
\* faulty variant: the loop stops one scale early
FitLoopDone_OffByOne(idx, n) == idx >= n - 1
FitLoopDone(idx, n) == idx >= n

\* _prepare_image attaches the transient groups to the image
AttachTransient(lm, initial_shape, gt) ==
    LET lm1 == SetGroup(lm, "__initial_shape", initial_shape)
    IN IF HasGt(gt) THEN SetGroup(lm1, "__gt_shape", gt[1]) ELSE lm1

\* faulty variant: the ground-truth group is left attached
DetachTransient_KeepsGt(lm, gt) == DelGroup(lm, "__initial_shape")
\* "detach added landmarks from image"
DetachTransient(lm, gt) ==
    LET lm1 == DelGroup(lm, "__initial_shape")
    IN IF HasGt(gt) THEN DelGroup(lm1, "__gt_shape") ELSE lm1

\* algorithm_results.append(algorithm_result)
AppendResult(results, r) == Append(results, r)

\* the landmark group `g` of a derived image, as a shape
Lms(im, g) == im.landmarks[g]

FitInit ==
    /\ scales \in NonEmptySeqs(ScaleVals, MaxScales)
    /\ holistic_features \in {hf \in NonEmptySeqs(FeatureFns, MaxScales) :
                                  Len(hf) = Len(scales)}
    /\ image \in {MkImage(lm, "raw") : lm \in CallerLandmarks}
    /\ args = NoArgs
    /\ pc = "idle"
    /\ i = 0
    /\ tmp_image = NoImage
    /\ feature_image = NoImage
    /\ images = <<>>
    /\ initial_shapes = <<>>
    /\ gt_shapes = None
    /\ affine_correction = None
    /\ max_iters = <<>>
    /\ shape = NoShape
    /\ algorithm_results = <<>>
    /\ fitter_result = None
    /\ error = ""
    /\ featLog = <<>>
    /\ cropLog = <<>>
    /\ runLog = <<>>

\* fit_from_shape is entered and _prepare_image attaches the transient groups
FitFromShape ==
    /\ pc = "idle"
    /\ \E mi \in MaxItersArgs, gt \in {None, Some(MkShape("gt_shape", -1))},
          crop \in CropVals :
        LET initial_shape == MkShape("initial_shape", -1)
            lm2 == AttachTransient(image.landmarks, initial_shape, gt)
        IN /\ args' = [initial_shape |-> initial_shape, max_iters |-> mi,
                       gt_shape |-> gt, crop_image |-> crop,
                       landmarks |-> image.landmarks]
           /\ image' = MkImage(lm2, image.feat)
    /\ pc' = "crop"
    /\ UNCHANGED <<scales, holistic_features, i, tmp_image, feature_image, images,
                   initial_shapes, gt_shapes, affine_correction, max_iters, shape,
                   algorithm_results, fitter_result, error, featLog, cropLog, runLog>>

\* the optional crop, then the rescale to the reference shape
PrepareCrop ==
    /\ pc = "crop"
    /\ LET cropped == IF ShouldCrop(args.crop_image)
                      THEN CropToLandmarksProportion(image, args.crop_image[1])
                      ELSE image
       IN /\ tmp_image' = RescaleToPointcloud(cropped)
          /\ cropLog' = IF ShouldCrop(args.crop_image)
                        THEN Append(cropLog, args.crop_image[1]) ELSE cropLog
    /\ i' = 0
    /\ pc' = "features"
    /\ UNCHANGED <<scales, holistic_features, image, args, feature_image, images,
                   initial_shapes, gt_shapes, affine_correction, max_iters, shape,
                   algorithm_results, fitter_result, error, featLog, runLog>>

\* one pass of the loop that builds the pyramid
PrepareLevel ==
    /\ pc = "features"
    /\ ~PrepareLoopDone(i, n_scales)
    /\ LET fimg == IF NeedsFeature(holistic_features, i)
                   THEN ApplyFeature(At(holistic_features, i), tmp_image)
                   ELSE feature_image
       IN /\ feature_image' = fimg
          /\ featLog' = IF NeedsFeature(holistic_features, i)
                        THEN Append(featLog, <<i, At(holistic_features, i)>>)
                        ELSE featLog
          /\ images' = Append(images, ScaledImage(scales, i, fimg))
    /\ i' = i + 1
    /\ UNCHANGED <<scales, holistic_features, image, args, pc, tmp_image,
                   initial_shapes, gt_shapes, affine_correction, max_iters, shape,
                   algorithm_results, fitter_result, error, cropLog, runLog>>

\* the per-level shapes are read off the images and the transient groups detached
PrepareCollect ==
    /\ pc = "features"
    /\ PrepareLoopDone(i, n_scales)
    /\ initial_shapes' = [k \in 1..Len(images) |-> Lms(images[k], "__initial_shape")]
    /\ gt_shapes' = IF HasGt(args.gt_shape)
                    THEN Some([k \in 1..Len(images) |-> Lms(images[k], "__gt_shape")])
                    ELSE None
    /\ image' = MkImage(DetachTransient(image.landmarks, args.gt_shape), image.feat)
    /\ pc' = "affine"
    /\ UNCHANGED <<scales, holistic_features, args, i, tmp_image, feature_image,
                   images, affine_correction, max_iters, shape, algorithm_results,
                   fitter_result, error, featLog, cropLog, runLog>>

AffineCorrection ==
    /\ pc = "affine"
    /\ affine_correction' =
           Some(AlignmentAffine(AffineSource(initial_shapes), args.initial_shape))
    /\ pc' = "check"
    /\ UNCHANGED <<scales, holistic_features, image, args, i, tmp_image,
                   feature_image, images, initial_shapes, gt_shapes, max_iters, shape,
                   algorithm_results, fitter_result, error, featLog, cropLog, runLog>>

\* _fit starts: the budgets are checked, the shape and the result list set up
FitCheck ==
    /\ pc = "check"
    /\ IF CheckMaxItersOk(args.max_iters, n_scales)
       THEN /\ max_iters' = CheckMaxIters(args.max_iters, n_scales)
            /\ shape' = At(initial_shapes, 0)
            /\ i' = 0
            /\ pc' = "run"
            /\ error' = error
       ELSE /\ pc' = "raised"
            /\ error' = "ValueError"
            /\ UNCHANGED <<max_iters, shape, i>>
    /\ UNCHANGED <<scales, holistic_features, image, args, tmp_image, feature_image,
                   images, initial_shapes, gt_shapes, affine_correction,
                   algorithm_results, fitter_result, featLog, cropLog, runLog>>

\* one pass of _fit's loop: algorithms[i].run returns
FitRun ==
    /\ pc = "run"
    /\ ~FitLoopDone(i, n_scales)
    /\ LET gt == IF gt_shapes # None THEN Some(At(gt_shapes[1], i)) ELSE None
           frame == Lms(At(images, i), "__initial_shape")
           final_shape == [frame EXCEPT !.origin = "final", !.level = i]
           call == [algorithm |-> i, image |-> At(images, i), shape |-> shape,
                    gt_shape |-> gt, max_iters |-> Budget(max_iters, i)]
           algorithm_result == [algorithm |-> i, final_shape |-> final_shape]
       IN /\ runLog' = Append(runLog, call)
          /\ algorithm_results' = AppendResult(algorithm_results, algorithm_result)
          /\ shape' = NextShape(scales, i, final_shape)
    /\ i' = i + 1
    /\ UNCHANGED <<scales, holistic_features, image, args, pc, tmp_image,
                   feature_image, images, initial_shapes, gt_shapes,
                   affine_correction, max_iters, fitter_result, error, featLog,
                   cropLog>>

\* one pass of _fit's loop: algorithms[i].run raises, and the error propagates
FitRunFails ==
    /\ pc = "run"
    /\ ~FitLoopDone(i, n_scales)
    /\ LET gt == IF gt_shapes # None THEN Some(At(gt_shapes[1], i)) ELSE None
           call == [algorithm |-> i, image |-> At(images, i), shape |-> shape,
                    gt_shape |-> gt, max_iters |-> Budget(max_iters, i)]
       IN runLog' = Append(runLog, call)
    /\ pc' = "raised"
    /\ error' = "AlgorithmError"
    /\ UNCHANGED <<scales, holistic_features, image, args, i, tmp_image,
                   feature_image, images, initial_shapes, gt_shapes,
                   affine_correction, max_iters, shape, algorithm_results,
                   fitter_result, featLog, cropLog>>

\* _fit returns and the result is built and returned
FitterResult ==
    /\ pc = "run"
    /\ FitLoopDone(i, n_scales)
    /\ fitter_result' = Some([image |-> image, algorithm_results |-> algorithm_results,
                              affine_correction |-> affine_correction[1],
                              gt_shape |-> args.gt_shape])
    /\ pc' = "done"
    /\ UNCHANGED <<scales, holistic_features, image, args, i, tmp_image,
                   feature_image, images, initial_shapes, gt_shapes,
                   affine_correction, max_iters, shape, algorithm_results, error,
                   featLog, cropLog, runLog>>

\* ===================================== generate_perturbations_from_gt
\* A landmark group name is <<prefix, index>>: <<"PTS", 0>> is "PTS",
\* <<"bb_", 1>> is "bb_1", <<"__generated_bb_", k>> is '__generated_bb_{}'.format(k).
VARIABLES
    gen_images,     \* the images: each one's landmark mapping
    gen_args,       \* arguments of the call in progress, and the mappings at its start
    gpc,            \* position in generate_perturbations_from_gt
    n_bbs,
    im,             \* index of the image being processed
    gt_s,
    bbs,            \* what bb_generator(im) has still to yield
    bb,             \* the source box of the running inner loop
    j,              \* the inner loop's counter
    k,
    outside,        \* im.has_landmarks_outside_bounds of the image being processed
    perturbCalls,   \* number of perturb_func invocations of this call
    gen_calls,      \* number of calls made so far
    gerror,
    gen_log         \* the calls made so far: n_perturbations and bb_group_glob

genVars == <<gen_images, gen_args, gpc, n_bbs, im, gt_s, bbs, bb, j, k, outside,
             perturbCalls, gen_calls, gerror, gen_log>>

gt_group == <<"PTS", 0>>
GeneratedPrefix == "__generated_bb_"
GeneratedGroup(idx) == <<GeneratedPrefix, idx>>

\* the bounding-box globs a caller passes; the last one matches no group
Globs == {"bb_*", "zz_*"}

\* fnmatch(key, glob) for the patterns above
GlobMatches(key, glob) ==
    CASE glob = "bb_*" -> key[1] = "bb_"
      [] glob = "zz_*" -> key[1] = "zz_"
      [] glob = "__generated_bb_*" -> key[1] = GeneratedPrefix
      [] OTHER -> FALSE

\* im.landmarks.items_matching(glob): the matching keys
KeysMatching(lm, glob) == {key \in DOMAIN lm : GlobMatches(key, glob)}

\* a landmark group's value: the group it stems from and whether perturb_func
\* made it. Coordinates are not kept.
MkBox(origin) == [origin |-> origin, perturbed |-> FALSE]
NoBox == MkBox(<<"none", 0>>)

\* perturb_func(gt_s, bb).bounding_box()
PerturbedBox(gts, box) == [origin |-> box.origin, perturbed |-> TRUE]

\* im.constrain_landmarks_to_bounds(): points are moved onto the image, every
\* group stays what it is
ConstrainLandmarks(lm) == lm

\* bb_generator(im): the keys whose boxes it yields
BBGenerator(lm, glob) == IF glob = None THEN {gt_group} ELSE KeysMatching(lm, glob[1])

\* faulty variant: the matches are not counted
NBbs_Unchecked(imgs, glob) == 1
\* n_bbs: 1 without a glob, else the number of matches on images[0]
NBbs(imgs, glob) == IF glob = None THEN 1 ELSE Cardinality(KeysMatching(imgs[1], glob[1]))

\* faulty variant: the source box is never re-attached
PassesThrough_Never(glob) == FALSE
\* `if bb_group_glob is not None:` the source box is re-attached
PassesThrough(glob) == glob # None

\* generated_bb_func(x): the groups the returned accessor yields
GeneratedBBFunc(lm) == KeysMatching(lm, "__generated_bb_*")

\* faulty variant: the counter goes on after the groups already generated
KStart_Continue(lm) == Cardinality(GeneratedBBFunc(lm))
\* `k = 0`: the counter's start for an image, whatever the image carries
KStart(lm) == 0

\* the bounding-box groups an image may carry besides its ground truth
BoxIds == {0, 1}

GenLandmarks ==
    { [key \in {gt_group} \cup {<<"bb_", b>> : b \in B} |-> MkBox(key)] :
        B \in SUBSET BoxIds }

NoGenArgs == [n_perturbations |-> 0, bb_group_glob |-> None, images |-> <<>>]

GenInit ==
    /\ gen_images \in NonEmptySeqs(GenLandmarks, MaxImages)
    /\ gen_args = NoGenArgs
    /\ gpc = "idle"
    /\ n_bbs = 0
    /\ im = 0
    /\ gt_s = NoBox
    /\ bbs = {}
    /\ bb = NoBox
    /\ j = 0
    /\ k = 0
    /\ outside = FALSE
    /\ perturbCalls = 0
    /\ gen_calls = 0
    /\ gerror = ""
    /\ gen_log = <<>>

\* the call is entered: bb_generator and n_bbs are set up, and a glob that
\* matches nothing on the first image raises
GenCall ==
    /\ gpc \in {"idle", "done", "raised"}
    /\ gen_calls < MaxCalls
    /\ \E n \in 0..MaxPerturbations, glob \in {None} \cup {Some(g) : g \in Globs} :
        /\ gen_args' = [n_perturbations |-> n, bb_group_glob |-> glob,
                        images |-> gen_images]
        /\ n_bbs' = NBbs(gen_images, glob)
        /\ IF NBbs(gen_images, glob) = 0
           THEN gpc' = "raised" /\ gerror' = "ValueError"
           ELSE gpc' = "images" /\ gerror' = ""
        /\ gen_log' = Append(gen_log, [n_perturbations |-> n, bb_group_glob |-> glob])
    /\ gen_calls' = gen_calls + 1
    /\ im' = 0
    /\ perturbCalls' = 0
    /\ UNCHANGED <<gen_images, gt_s, bbs, bb, j, k, outside>>

\* the locals of a call that is over
LocalsGone ==
    /\ gt_s' = NoBox
    /\ bbs' = {}
    /\ bb' = NoBox
    /\ j' = 0
    /\ k' = 0

\* `for im in wrap(images)`: the next image's ground-truth box, k = 0
GenImage ==
    /\ gpc = "images"
    /\ im < Len(gen_images)
    /\ gt_s' = At(gen_images, im)[gt_group]
    /\ k' = KStart(At(gen_images, im))
    /\ bbs' = BBGenerator(At(gen_images, im), gen_args.bb_group_glob)
    /\ gpc' = "boxes"
    /\ UNCHANGED <<gen_images, gen_args, n_bbs, im, bb, j, outside, perturbCalls,
                   gen_calls, gerror, gen_log>>

\* `for bb in bb_generator(im)`: the generator yields its next box
GenBox ==
    /\ gpc = "boxes"
    /\ \E key \in bbs :
        /\ bb' = At(gen_images, im)[key]
        /\ bbs' = bbs \ {key}
    /\ j' = 0
    /\ gpc' = "perturb"
    /\ UNCHANGED <<gen_images, gen_args, n_bbs, im, gt_s, k, outside, perturbCalls,
                   gen_calls, gerror, gen_log>>

\* `for _ in range(n_perturbations)`: one perturbed box is attached
GenPerturb ==
    /\ gpc = "perturb"
    /\ j < gen_args.n_perturbations
    /\ gen_images' = [gen_images EXCEPT
           ![im + 1] = SetGroup(@, GeneratedGroup(k), PerturbedBox(gt_s, bb))]
    /\ \E lies_outside \in BOOLEAN : outside' = (outside \/ lies_outside)
    /\ perturbCalls' = perturbCalls + 1
    /\ k' = k + 1
    /\ j' = j + 1
    /\ UNCHANGED <<gen_args, gpc, n_bbs, im, gt_s, bbs, bb, gen_calls, gerror, gen_log>>

\* after the perturbations of one box: with a glob, the box itself is attached
GenPassThrough ==
    /\ gpc = "perturb"
    /\ j = gen_args.n_perturbations
    /\ IF PassesThrough(gen_args.bb_group_glob)
       THEN /\ gen_images' = [gen_images EXCEPT
                   ![im + 1] = SetGroup(@, GeneratedGroup(k), bb)]
            /\ k' = k + 1
       ELSE UNCHANGED <<gen_images, k>>
    /\ gpc' = "boxes"
    /\ UNCHANGED <<gen_args, n_bbs, im, gt_s, bbs, bb, j, outside, perturbCalls,
                   gen_calls, gerror, gen_log>>

\* the image's boxes are exhausted: its landmarks are clamped if any lies
\* outside the image bounds
GenConstrain ==
    /\ gpc = "boxes"
    /\ bbs = {}
    /\ gen_images' = IF outside
                     THEN [gen_images EXCEPT ![im + 1] = ConstrainLandmarks(@)]
                     ELSE gen_images
    /\ outside' = FALSE
    /\ im' = im + 1
    /\ gpc' = "images"
    /\ UNCHANGED <<gen_args, n_bbs, gt_s, bbs, bb, j, k, perturbCalls, gen_calls,
                   gerror, gen_log>>

\* every image is processed: the accessor is returned
GenReturn ==
    /\ gpc = "images"
    /\ im = Len(gen_images)
    /\ gpc' = "done"
    /\ LocalsGone
    /\ UNCHANGED <<gen_images, gen_args, n_bbs, im, outside, perturbCalls, gen_calls,
                   gerror, gen_log>>

\* =============================== noisy_alignment_similarity_transform
VARIABLES
    noise_in,   \* the arguments of the call
    noise_out,  \* what the call returned or raised
    npc

noiseVars == <<noise_in, noise_out, npc>>

\* A string argument is known by its value and by whether it is the very
\* object of the source's literal (what `is` compares).
NoiseTypes ==
    {[val |-> v, literal |-> l] : v \in {"gaussian", "uniform"}, l \in BOOLEAN}
    \cup {[val |-> "poisson", literal |-> FALSE]}

PctVals == {FracZero, Frac(1, 10)}

\* noise_percentage as passed: a float, an int, or a list of floats
NoisePercentages ==
    {[kind |-> "float", val |-> <<v>>] : v \in PctVals}
    \cup {[kind |-> "int", val |-> <<v>>] : v \in {FracZero, FracOne}}
    \cup {[kind |-> "list", val |-> l] : l \in SeqsUpTo(PctVals, MaxPctLen)}

\* values np.random.randn and np.random.rand may return
RandnVals == {Frac(0 - 1, 1), FracZero, FracHalf, Frac(3, 2)}
RandVals == {FracZero, FracHalf, Frac(3, 4)}

\* target.range(): the per-axis extent
TargetRange == <<Frac(2, 1), Frac(4, 1)>>

\* `noise_type is 'gaussian'`
IsLiteral(noise_type, lit) == noise_type.val = lit /\ noise_type.literal

\* lines 44-47: the broadcast of noise_percentage; len() of an int raises
PctTypeOk(np) == np.kind # "int"

BroadcastPct(np) ==
    IF np.kind = "float" THEN <<np.val[1], np.val[1], np.val[1]>>
    ELSE IF Len(np.val) = 1 THEN np.val \o np.val \o np.val
    ELSE np.val

Component(kind, param, rotation) ==
    [kind |-> kind, param |-> param, rotation |-> rotation]

\* AlignmentSimilarity(source, target, rotation=rotation)
AlignmentSimilarity(rotation) == Component("similarity", <<>>, rotation)
\* scale_about_centre(target, factor)
ScaleAboutCentre(factor) == Component("scale", <<factor>>, FALSE)
\* rotate_ccw_about_centre(target, degrees)
RotateCcwAboutCentre(degrees) == Component("rotate", <<degrees>>, FALSE)
\* Translation(t, n_dims)
Translation(t) == Component("translate", t, FALSE)

IsIdentity(c) ==
    CASE c.kind = "scale" -> c.param = <<FracOne>>
      [] c.kind = "rotate" -> c.param = <<FracZero>>
      [] c.kind = "translate" -> c.param = <<FracZero, FracZero>>
      [] OTHER -> FALSE

\* A transform is the list of its non-identity components in the order they
\* are applied; a.compose_after(b) applies b first.
AsTransform(c) == IF IsIdentity(c) THEN <<>> ELSE <<c>>
ComposeAfter(a, b) == b \o a

\* the gaussian branch's parameters from the draws d
GaussianScale(pct, d) == FracMul(FracMul(pct[1], Frac(1, 6)), d[1])
GaussianRotation(pct, d) == FracMul(FracMul(pct[2], Frac(60, 1)), d[2])
GaussianTranslation(pct, d) ==
    <<FracMul(FracMul(pct[3], FracDiv(TargetRange[1], Frac(3, 1))), d[3]),
      FracMul(FracMul(pct[3], FracDiv(TargetRange[2], Frac(3, 1))), d[4])>>

\* 2 * x - 1
TwiceMinusOne(x) == FracSub(FracMul(Frac(2, 1), x), FracOne)

\* the uniform branch's parameters from the draws d
UniformScale(pct, d) == FracMul(FracMul(pct[1], FracHalf), TwiceMinusOne(d[1]))
UniformRotation(pct, d) == FracMul(FracMul(pct[2], Frac(180, 1)), TwiceMinusOne(d[2]))
UniformTranslation(pct, d) ==
    <<FracMul(FracMul(pct[3], TargetRange[1]), TwiceMinusOne(d[3])),
      FracMul(FracMul(pct[3], TargetRange[2]), TwiceMinusOne(d[4]))>>

\* the draws each branch makes: randn for the first, and for the rest randn
\* (gaussian) or rand (uniform)
GaussianDraws ==
    {<<a, b, c, e>> : a \in RandnVals, b \in RandnVals, c \in RandnVals, e \in RandnVals}
UniformDraws ==
    {<<a, b, c, e>> : a \in RandnVals, b \in RandVals, c \in RandVals, e \in RandVals}

Raised(err) == [status |-> err, transform |-> <<>>]
Returned(t) == [status |-> "ok", transform |-> t]

\* similarity.compose_after(t.compose_after(s.compose_after(r)))
Perturbed(similarity, s, r, t) ==
    Returned(ComposeAfter(AsTransform(similarity),
        ComposeAfter(AsTransform(Translation(t)),
            ComposeAfter(AsTransform(ScaleAboutCentre(FracAdd(FracOne, s))),
                         AsTransform(RotateCcwAboutCentre(r))))))

\* the whole function, for the draws d it makes
NoisyAlignmentSimilarityTransform(noise_type, noise_percentage, rotation, d) ==
    IF ~PctTypeOk(noise_percentage) THEN Raised("TypeError")
    ELSE LET pct == BroadcastPct(noise_percentage)
             similarity == AlignmentSimilarity(rotation)
         IN IF IsLiteral(noise_type, "gaussian")
            THEN IF Len(pct) < 3 THEN Raised("IndexError")
                 ELSE Perturbed(similarity, GaussianScale(pct, d),
                                GaussianRotation(pct, d), GaussianTranslation(pct, d))
            ELSE IF IsLiteral(noise_type, "uniform")
            THEN IF Len(pct) < 3 THEN Raised("IndexError")
                 ELSE Perturbed(similarity, UniformScale(pct, d),
                                UniformRotation(pct, d), UniformTranslation(pct, d))
            ELSE Raised("ValueError")

NoiseInit ==
    /\ noise_in \in [noise_type : NoiseTypes, noise_percentage : NoisePercentages,
                     rotation : BOOLEAN]
    /\ noise_out = Raised("")
    /\ npc = "call"

\* the call runs, drawing its random numbers
NoiseCall ==
    /\ npc = "call"
    /\ \E d \in IF noise_in.noise_type.val = "gaussian" THEN GaussianDraws
                ELSE UniformDraws :
        noise_out' = NoisyAlignmentSimilarityTransform(
            noise_in.noise_type, noise_in.noise_percentage, noise_in.rotation, d)
    /\ npc' = "done"
    /\ UNCHANGED noise_in

\* ==================================================== specifications
vars == <<fitVars, genVars, noiseVars>>

FitIdle ==
    /\ scales = <<FracOne>>
    /\ holistic_features = <<"f">>
    /\ image = NoImage
    /\ args = NoArgs
    /\ pc = "off"
    /\ i = 0
    /\ tmp_image = NoImage
    /\ feature_image = NoImage
    /\ images = <<>>
    /\ initial_shapes = <<>>
    /\ gt_shapes = None
    /\ affine_correction = None
    /\ max_iters = <<>>
    /\ shape = NoShape
    /\ algorithm_results = <<>>
    /\ fitter_result = None
    /\ error = ""
    /\ featLog = <<>>
    /\ cropLog = <<>>
    /\ runLog = <<>>

GenIdle ==
    /\ gen_images = <<>>
    /\ gen_args = NoGenArgs
    /\ gpc = "off"
    /\ n_bbs = 0
    /\ im = 0
    /\ gt_s = NoBox
    /\ bbs = {}
    /\ bb = NoBox
    /\ j = 0
    /\ k = 0
    /\ outside = FALSE
    /\ perturbCalls = 0
    /\ gen_calls = 0
    /\ gerror = ""
    /\ gen_log = <<>>

NoiseIdle ==
    /\ noise_in = [noise_type |-> [val |-> "uniform", literal |-> TRUE],
                   noise_percentage |-> [kind |-> "float", val |-> <<FracZero>>],
                   rotation |-> FALSE]
    /\ noise_out = Raised("")
    /\ npc = "off"

\* a fit_from_shape call on a configured fitter
Init == FitInit /\ GenIdle /\ NoiseIdle

Next ==
    \/ FitFromShape /\ UNCHANGED <<genVars, noiseVars>>
    \/ PrepareCrop /\ UNCHANGED <<genVars, noiseVars>>
    \/ PrepareLevel /\ UNCHANGED <<genVars, noiseVars>>
    \/ PrepareCollect /\ UNCHANGED <<genVars, noiseVars>>
    \/ AffineCorrection /\ UNCHANGED <<genVars, noiseVars>>
    \/ FitCheck /\ UNCHANGED <<genVars, noiseVars>>
    \/ FitRun /\ UNCHANGED <<genVars, noiseVars>>
    \/ FitRunFails /\ UNCHANGED <<genVars, noiseVars>>
    \/ FitterResult /\ UNCHANGED <<genVars, noiseVars>>

Spec == Init /\ [][Next]_vars

\* calls of generate_perturbations_from_gt on a list of images
InitGen == FitIdle /\ GenInit /\ NoiseIdle

NextGen ==
    \/ GenCall /\ UNCHANGED <<fitVars, noiseVars>>
    \/ GenImage /\ UNCHANGED <<fitVars, noiseVars>>
    \/ GenBox /\ UNCHANGED <<fitVars, noiseVars>>
    \/ GenPerturb /\ UNCHANGED <<fitVars, noiseVars>>
    \/ GenPassThrough /\ UNCHANGED <<fitVars, noiseVars>>
    \/ GenConstrain /\ UNCHANGED <<fitVars, noiseVars>>
    \/ GenReturn /\ UNCHANGED <<fitVars, noiseVars>>

SpecGen == InitGen /\ [][NextGen]_vars

\* a call of noisy_alignment_similarity_transform
InitNoise == FitIdle /\ GenIdle /\ NoiseInit

NextNoise == NoiseCall /\ UNCHANGED <<fitVars, genVars>>

SpecNoise == InitNoise /\ [][NextNoise]_vars

\* ============================================================ claims
\* a call that has returned / that has gone past _prepare_image
Returned_fit == pc = "done"
Prepared == pc \in {"affine", "check", "run", "raised", "done"}

\* C1: the algorithms are run in index order 0, 1, ..., each once, and when
\* fit_from_shape returns, n_scales algorithms have run and the result holds
\* n_scales AlgorithmResults, entry i being the result of algorithm i.
C1_RunsInOrder ==
    /\ \A idx \in 1..Len(runLog) : runLog[idx].algorithm = idx - 1
    /\ Returned_fit =>
        /\ Len(runLog) = n_scales
        /\ Len(fitter_result[1].algorithm_results) = n_scales
        /\ \A idx \in 1..n_scales :
               fitter_result[1].algorithm_results[idx].algorithm = idx - 1

C1_Witness ==
    /\ Returned_fit
    /\ n_scales > 1
    /\ Len(fitter_result[1].algorithm_results) = n_scales

C3_TransientDetached ==
    Returned_fit =>
        LET transient == {"__initial_shape"} \cup
                         (IF args.gt_shape # None THEN {"__gt_shape"} ELSE {})
        IN /\ DOMAIN image.landmarks = DOMAIN args.landmarks \ transient
           /\ \A g \in DOMAIN image.landmarks : image.landmarks[g] = args.landmarks[g]

C3_Witness ==
    /\ Returned_fit
    /\ args.gt_shape # None
    /\ cropLog # <<>>
    /\ "PTS" \in DOMAIN image.landmarks

\* C4 as stated: the affine correction aligns the coarsest level's initial shape
\* (index 0) to the caller's initial_shape.
C4_SourceIsCoarsest ==
    affine_correction # None =>
        /\ affine_correction[1].source = At(initial_shapes, 0)
        /\ affine_correction[1].target = args.initial_shape

\* C4 amended: the affine correction aligns the last level's initial shape
\* (index n_scales - 1) to the caller's initial_shape.
C4_SourceIsLast ==
    affine_correction # None =>
        /\ affine_correction[1].source = initial_shapes[n_scales]
        /\ affine_correction[1].target = args.initial_shape

C4_Witness ==
    /\ affine_correction # None
    /\ initial_shapes[n_scales] # At(initial_shapes, 0)

\* C5: algorithm 0 is given the coarsest level's initial shape, algorithm i+1 is
\* given algorithm i's final_shape rescaled by scales[i+1] / scales[i], and the
\* last scale's final_shape is not rescaled.
C5_HandOff ==
    /\ runLog # <<>> => runLog[1].shape = At(initial_shapes, 0)
    /\ \A idx \in 1..(Len(runLog) - 1) :
           runLog[idx + 1].shape =
               ScaleApply(FracDiv(scales[idx + 1], scales[idx]),
                          algorithm_results[idx].final_shape)
    /\ Returned_fit => shape = algorithm_results[n_scales].final_shape

\* C6: a feature function is invoked at level 0 and at each level whose function
\* differs from the previous level's, and nowhere else; every level's image is
\* made by that level's function.
C6_FeatureCalls ==
    Prepared =>
        LET computed == {idx \in 0..(n_scales - 1) :
                            idx = 0 \/ holistic_features[idx + 1] # holistic_features[idx]}
        IN /\ Len(featLog) = Cardinality(computed)
           /\ {featLog[q][1] : q \in 1..Len(featLog)} = computed
           /\ \A q \in 1..Len(featLog) :
                  featLog[q][2] = holistic_features[featLog[q][1] + 1]
           /\ Len(images) = n_scales
           /\ \A idx \in 1..n_scales : images[idx].feat = holistic_features[idx]

C6_Witness ==
    /\ Prepared
    /\ Len(featLog) > 1
    /\ Len(featLog) < n_scales

\* C7: the image is cropped whenever crop_image is not None, a proportion of 0
\* included, and only then.
C7_CropUnlessNone ==
    pc \in {"features", "affine", "check", "run", "raised", "done"} =>
        cropLog = IF args.crop_image # None THEN <<args.crop_image[1]>> ELSE <<>>

\* the groups `__generated_bb_0` .. `__generated_bb_{count-1}`
GeneratedUpTo(count) == {GeneratedGroup(q) : q \in 0..(count - 1)}

\* C8: after a call with n_perturbations = N, an image that had no generated
\* group carries exactly N of them without a glob, and N*M + M of them with a
\* glob matching M of its groups (N perturbed boxes and the box itself, per
\* matched box), numbered 0, 1, ... without gaps.
C8_GeneratedCount ==
    gpc = "done" =>
        \A m \in 1..Len(gen_images) :
            LET before == gen_args.images[m]
                after == gen_images[m]
                N == gen_args.n_perturbations
                glob == gen_args.bb_group_glob
                generated == {key \in DOMAIN after : key[1] = GeneratedPrefix}
                made == {key \in generated : after[key].perturbed}
                kept == generated \ made
            IN (\A key \in DOMAIN before : key[1] # GeneratedPrefix) =>
                   IF glob = None
                   THEN generated = GeneratedUpTo(N) /\ made = generated
                   ELSE LET matched == {key \in DOMAIN before : GlobMatches(key, glob[1])}
                            M == Cardinality(matched)
                        IN /\ generated = GeneratedUpTo(N * M + M)
                           /\ Cardinality(made) = N * M
                           /\ Cardinality(kept) = M
                           /\ {after[key].origin : key \in kept} = matched

C8_Witness ==
    /\ gpc = "done"
    /\ gen_calls = 1
    /\ gen_args.bb_group_glob # None
    /\ gen_args.n_perturbations > 1
    /\ \E m \in 1..Len(gen_images) :
           Cardinality({key \in DOMAIN gen_images[m] : key[1] = GeneratedPrefix})
               > gen_args.n_perturbations + 1

\* C9: a call whose glob matches no group of the first image raises ValueError
\* with every image's landmark mapping as it was and perturb_func never called.
C9_EmptyGlobRaises ==
    (/\ gen_calls > 0
     /\ gen_args.bb_group_glob # None
     /\ \A key \in DOMAIN gen_args.images[1] :
            ~GlobMatches(key, gen_args.bb_group_glob[1])) =>
        /\ gpc = "raised"
        /\ gerror = "ValueError"
        /\ gen_images = gen_args.images
        /\ perturbCalls = 0

C9_Witness ==
    /\ gpc = "raised"
    /\ gen_calls = 1
    /\ gen_args.bb_group_glob = Some("bb_*")
    /\ Len(gen_images) > 1
    /\ \E key \in DOMAIN gen_images[2] : GlobMatches(key, "bb_*")

\* C10: with a zero noise_percentage (a scalar, or three zeros) and a supported
\* noise_type the call returns the un-perturbed alignment, whatever is drawn.
C10_ZeroNoise ==
    LET np == noise_in.noise_percentage
        zero == \/ np.kind \in {"float", "int"} /\ np.val = <<FracZero>>
                \/ np.kind = "list" /\ np.val = <<FracZero, FracZero, FracZero>>
    IN (npc = "done" /\ zero /\ noise_in.noise_type.val \in {"gaussian", "uniform"}) =>
           noise_out = Returned(<<AlignmentSimilarity(noise_in.rotation)>>)

\* the call's broadcast percentages, and the parameter of one kind of
\* component of a returned transform (the identity's parameter when absent)
ParamOf(transform, kind, identity) ==
    IF \E q \in 1..Len(transform) : transform[q].kind = kind
    THEN (CHOOSE c \in {transform[q] : q \in 1..Len(transform)} : c.kind = kind).param
    ELSE identity

FracLeq(a, b) == a[1] * b[2] <= b[1] * a[2]
FracAbs(a) == IF a[1] < 0 THEN <<0 - a[1], a[2]>> ELSE a

\* C11: a noise_percentage list whose length is neither 1 nor 3 makes the call
\* raise the invalid-argument error (ValueError) and return no transform; a
\* float scalar v and a one-element list [v] give what the list [v, v, v] gives.
C11_PctLength ==
    npc = "done" =>
        LET np == noise_in.noise_percentage
            asThree == [kind |-> "list", val |-> <<np.val[1], np.val[1], np.val[1]>>]
        IN /\ (np.kind = "list" /\ Len(np.val) \notin {1, 3}) =>
                  noise_out = Raised("ValueError")
           /\ (np.kind = "float" \/ (np.kind = "list" /\ Len(np.val) = 1)) =>
                  noise_out \in
                      {NoisyAlignmentSimilarityTransform(
                           noise_in.noise_type, asThree, noise_in.rotation, d) :
                       d \in GaussianDraws \cup UniformDraws}

\* C12: with noise_type 'uniform' the scale perturbation s satisfies
\* |s| <= 0.5 * pct[0], the applied factor being 1 + s; the rotation is within
\* 180 * pct[1] degrees and each translation within pct[2] * target.range().
C12_UniformBounds ==
    (npc = "done" /\ noise_in.noise_type.val = "uniform" /\ noise_out.status = "ok") =>
        LET pct == BroadcastPct(noise_in.noise_percentage)
            factor == ParamOf(noise_out.transform, "scale", <<FracOne>>)[1]
            r == ParamOf(noise_out.transform, "rotate", <<FracZero>>)[1]
            t == ParamOf(noise_out.transform, "translate", <<FracZero, FracZero>>)
        IN /\ FracLeq(FracAbs(FracSub(factor, FracOne)), FracMul(FracHalf, pct[1]))
           /\ FracLeq(FracAbs(r), FracMul(Frac(180, 1), pct[2]))
           /\ \A ax \in 1..2 :
                  FracLeq(FracAbs(t[ax]), FracMul(pct[3], TargetRange[ax]))

\* the largest n_perturbations among the calls made
RECURSIVE MaxN(_)
MaxN(log) ==
    IF log = <<>> THEN 0
    ELSE LET rest == MaxN(Tail(log))
         IN IF Head(log).n_perturbations > rest THEN Head(log).n_perturbations ELSE rest

\* C13: after any sequence of calls without a glob, with counts N1, N2, ...,
\* every image carries exactly `__generated_bb_0` .. `__generated_bb_{max(Ni)-1}`
\* and the returned accessor yields all of them: the last call rewrote the
\* groups below its own count and left the higher-numbered ones as they were.
C13_GroupsAccumulate ==
    (gpc = "done" /\ \A q \in 1..Len(gen_log) : gen_log[q].bb_group_glob = None) =>
        \A m \in 1..Len(gen_images) :
            /\ GeneratedBBFunc(gen_images[m]) = GeneratedUpTo(MaxN(gen_log))
            /\ \A key \in GeneratedBBFunc(gen_args.images[m]) :
                   key[2] >= gen_args.n_perturbations =>
                       /\ key \in DOMAIN gen_images[m]
                       /\ gen_images[m][key] = gen_args.images[m][key]

C13_Witness ==
    /\ gpc = "done"
    /\ Len(gen_log) > 1
    /\ \A q \in 1..Len(gen_log) : gen_log[q].bb_group_glob = None
    /\ gen_args.n_perturbations > 0
    /\ gen_args.n_perturbations < MaxN(gen_log)
    /\ Cardinality(GeneratedBBFunc(gen_images[1])) > gen_args.n_perturbations

====
